---- MODULE Spec2Model ----
(***************************************************************************)
(* Model of the HIIT timer engine, createTimer() in src/src/timer.ts.      *)
(*                                                                         *)
(* The closure variables of createTimer are the variables of the model.    *)
(* Every function of the closure is an operator from an engine record to   *)
(* the engine record after the call, so that nested calls (start ->        *)
(* startPhase -> emit) compose as they do in the source.  Date.now() is    *)
(* the variable now, a non-decreasing clock advanced by its own action;    *)
(* the interval callback may fire at any clock value while its handle is   *)
(* live in the host.                                                       *)
(***************************************************************************)
EXTENDS Integers, Sequences, FiniteSets, TLC

\* ---------------------------------------------------------------- bounds
MaxWork == 2
MaxRest == 1
MaxRounds == 3
MaxNow == 4000
MaxAppNow == 6000
MaxPending == 2
MaxLocks == 2

\* ------------------------------------------------------ program constants
TICK_INTERVAL_MS == 100

NULL == 0

\* Clock increments between two events, as multiples of the tick interval:
\* shorter than a phase, exactly a phase, longer than a phase.
DelaySteps == {5, 10, 15}
Delays == {k * TICK_INTERVAL_MS : k \in DelaySteps}

Phase == {"idle", "work", "rest", "finished"}
TimerStatus == {"idle", "running", "paused", "finished"}

\* TimerSettings values the engine is constructed or updated with.
TimerSettings ==
  [workSeconds : 1..MaxWork, restSeconds : 0..MaxRest, rounds : 1..MaxRounds]

Max(a, b) == IF a >= b THEN a ELSE b

NoFreeze == [at |-> -1, remainingMs |-> -1]

NoAnchor == [at |-> -1, remainingMs |-> -1]

\* What entered holds once the settings have changed in the middle of a run.
SettingsChanged == <<<<"changed", 0>>>>

VARIABLES
  settings,         \* let settings
  phase,            \* let phase
  status,           \* let status
  currentRound,     \* let currentRound
  durationMs,       \* let durationMs
  remainingMs,      \* let remainingMs
  targetTimestamp,  \* let targetTimestamp
  timerId,          \* let timerId (NULL or an interval handle)
  intervals,        \* handles of the intervals live in the host
  now,              \* Date.now()
  emitted,          \* snapshots given to the listener by the latest operation
  lastOp,           \* the latest operation and the status, phase and round it was called in
  frozen,           \* clock value and remaining time at the latest effective pause
  returned,         \* value returned by the latest operation (<<>> for void)
  stored,           \* localStorage item STORAGE_KEY
  loaded,           \* the item loadSettings() read and state.settings, its result (<<>> before any load)
  state,            \* main.ts state: countdownTriggered, lastPhase, lastStatus, wakeLockActive, muted
  currentSnapshot,  \* main.ts currentSnapshot (<<>> for null)
  wakeLock,         \* WakeLockManager.sentinel, the locks the platform holds, the calls in flight
  host,             \* whether the listener is main.ts's, and the browser APIs that fail
  threw,            \* the listener threw into the latest operation
  warned,           \* APIs whose failure the latest operation caught and logged
  cues,             \* calls of AudioManager.play made by the latest operation
  fields,           \* ui.inputs[field].value and state.fieldState[field].valid (<<>> where the form is left out)
  anchor,           \* clock value and remaining time at the latest phase entry or resume of a running engine
  requested,        \* the settings most recently given to createTimer or updateSettings
  entered,          \* phases and rounds entered since the latest start() from idle or finished
  counted           \* seconds the countdown was played for since the phase in progress was entered

vars == <<settings, phase, status, currentRound, durationMs, remainingMs,
          targetTimestamp, timerId, intervals, now, emitted, lastOp, frozen,
          returned, stored, loaded, state, currentSnapshot, wakeLock, host,
          threw, warned, cues, fields, anchor, requested, entered, counted>>

\* The application layer around the engine.
appVars == <<state, currentSnapshot, wakeLock, host, threw, warned, cues,
            fields>>

\* The closure variables of createTimer and the host's live intervals.
engine == <<settings, phase, status, currentRound, durationMs, remainingMs,
            targetTimestamp, timerId, intervals>>

\* The engine as a record, at the entry of an operation: nothing emitted yet.
Cur ==
  [settings |-> settings, phase |-> phase, status |-> status,
   currentRound |-> currentRound, durationMs |-> durationMs,
   remainingMs |-> remainingMs, targetTimestamp |-> targetTimestamp,
   timerId |-> timerId, intervals |-> intervals, emitted |-> <<>>,
   app |-> [state |-> state, currentSnapshot |-> currentSnapshot,
            wakeLock |-> wakeLock, host |-> host, threw |-> FALSE,
            warned |-> {}, cues |-> <<>>, fields |-> fields]]

\* The object literal passed to the listener and returned by getState().
TimerSnapshot(s) ==
  [status |-> s.status, phase |-> s.phase, currentRound |-> s.currentRound,
   totalRounds |-> s.settings.rounds, durationMs |-> s.durationMs,
   remainingMs |-> s.remainingMs]

\* ------------------------------------------------------------- the listener
\* src/src/main.ts (listener, handleTick, handlePhaseSideEffects, wake lock),
\* src/src/vibrate.ts and src/src/audio.ts (AudioManager, WakeLockManager).
\* The functions take and give the application record a; a.threw says that an
\* exception is propagating, which skips the statements that follow.

COUNTDOWN_VALUES == {3, 2, 1}

APIs == {"audio", "vibrate", "wakeLock", "storage"}

\* Math.ceil(remainingMs / 1000)
CeilSeconds(ms) == (ms + 999) \div 1000

\* AudioManager.play is async: whatever fails in it rejects the promise, which
\* the caller discards with void; nothing is thrown to the caller.  The call
\* goes on record with its type; it sounds unless the manager is muted or the
\* audio context cannot be had.
play(a, type) ==
  [a EXCEPT !.cues = Append(@, [type |-> type,
                                sounds |-> /\ ~a.state.muted
                                           /\ "audio" \notin a.host.failing])]

\* VibrationManager.trigger without the try/catch.
trigger_NoCatch(a, pattern) ==
  IF a.threw \/ a.state.muted THEN a
  ELSE IF "vibrate" \in a.host.failing THEN [a EXCEPT !.threw = TRUE] ELSE a

\* VibrationManager.trigger: navigator.vibrate inside try/catch.
trigger(a, pattern) ==
  IF a.threw \/ a.state.muted THEN a
  ELSE IF "vibrate" \in a.host.failing
         THEN [a EXCEPT !.warned = @ \cup {"vibrate"}]
         ELSE a

COUNTDOWN_VIBRATION_MS == 100
PHASE_VIBRATION_MS == 200

triggerCountdownFeedback(a) == trigger(play(a, "countdown"), COUNTDOWN_VIBRATION_MS)
triggerStartFeedback(a) == trigger(play(a, "start"), PHASE_VIBRATION_MS)
triggerEndFeedback(a) == trigger(play(a, "end"), PHASE_VIBRATION_MS)

\* WakeLockManager.request up to its await: the platform request is in flight.
request(a) == [a EXCEPT !.wakeLock.requests = @ + 1]

\* WakeLockManager.release up to its await, and for a null sentinel the
\* continuation of releaseWakeLock as well.  sentinel.release() gives up the
\* lock unless the API fails; its promise settles later.
release(a) ==
  IF a.wakeLock.sentinel = NULL
    THEN [a EXCEPT !.state.wakeLockActive = FALSE]
    ELSE [a EXCEPT !.wakeLock.releases = @ + 1,
                   !.wakeLock.locks =
                     IF "wakeLock" \in a.host.failing
                       THEN @ ELSE @ \ {a.wakeLock.sentinel}]

ensureWakeLock(a) ==
  IF a.state.wakeLockActive THEN a ELSE request(a)

releaseWakeLock(a) ==
  IF ~a.state.wakeLockActive THEN a ELSE release(a)

\* handlePhaseSideEffects that plays the end sound for every finished snapshot.
handlePhaseSideEffects_EndAgain(a0, snapshot) ==
  LET a1 == IF snapshot.phase # a0.state.lastPhase
              THEN [a0 EXCEPT !.state.countdownTriggered = {}]
              ELSE a0
      seconds == CeilSeconds(snapshot.remainingMs)
      a2 == IF /\ snapshot.status = "running"
               /\ snapshot.durationMs > 0
               /\ seconds \in COUNTDOWN_VALUES
               /\ seconds > 0
               /\ seconds \notin a1.state.countdownTriggered
              THEN triggerCountdownFeedback(
                     [a1 EXCEPT !.state.countdownTriggered = @ \cup {seconds}])
              ELSE a1
      a3 == IF /\ ~a2.threw
               /\ snapshot.status = "running"
               /\ a2.state.lastStatus \in {"idle", "finished"}
               /\ snapshot.phase = "work"
              THEN triggerStartFeedback(a2)
              ELSE a2
      a4 == IF /\ ~a3.threw
               /\ snapshot.status = "finished"
              THEN triggerEndFeedback(a3)
              ELSE a3
      a5 == IF a4.threw THEN a4
            ELSE IF snapshot.status = "running"
                   THEN ensureWakeLock(a4)
                   ELSE releaseWakeLock(a4)
  IN  IF a5.threw THEN a5
      ELSE [a5 EXCEPT !.state.lastPhase = snapshot.phase,
                      !.state.lastStatus = snapshot.status]

\* handlePhaseSideEffects that does not ask whether the second was counted.
handlePhaseSideEffects_CountAgain(a0, snapshot) ==
  LET a1 == IF snapshot.phase # a0.state.lastPhase
              THEN [a0 EXCEPT !.state.countdownTriggered = {}]
              ELSE a0
      seconds == CeilSeconds(snapshot.remainingMs)
      a2 == IF /\ snapshot.status = "running"
               /\ snapshot.durationMs > 0
               /\ seconds \in COUNTDOWN_VALUES
               /\ seconds > 0
              THEN triggerCountdownFeedback(
                     [a1 EXCEPT !.state.countdownTriggered = @ \cup {seconds}])
              ELSE a1
      a3 == IF /\ ~a2.threw
               /\ snapshot.status = "running"
               /\ a2.state.lastStatus \in {"idle", "finished"}
               /\ snapshot.phase = "work"
              THEN triggerStartFeedback(a2)
              ELSE a2
      a4 == IF /\ ~a3.threw
               /\ snapshot.status = "finished"
               /\ a3.state.lastStatus # "finished"
              THEN triggerEndFeedback(a3)
              ELSE a3
      a5 == IF a4.threw THEN a4
            ELSE IF snapshot.status = "running"
                   THEN ensureWakeLock(a4)
                   ELSE releaseWakeLock(a4)
  IN  IF a5.threw THEN a5
      ELSE [a5 EXCEPT !.state.lastPhase = snapshot.phase,
                      !.state.lastStatus = snapshot.status]

handlePhaseSideEffects(a0, snapshot) ==
  LET a1 == IF snapshot.phase # a0.state.lastPhase
              THEN [a0 EXCEPT !.state.countdownTriggered = {}]
              ELSE a0
      seconds == CeilSeconds(snapshot.remainingMs)
      a2 == IF /\ snapshot.status = "running"
               /\ snapshot.durationMs > 0
               /\ seconds \in COUNTDOWN_VALUES
               /\ seconds > 0
               /\ seconds \notin a1.state.countdownTriggered
              THEN triggerCountdownFeedback(
                     [a1 EXCEPT !.state.countdownTriggered = @ \cup {seconds}])
              ELSE a1
      a3 == IF /\ ~a2.threw
               /\ snapshot.status = "running"
               /\ a2.state.lastStatus \in {"idle", "finished"}
               /\ snapshot.phase = "work"
              THEN triggerStartFeedback(a2)
              ELSE a2
      a4 == IF /\ ~a3.threw
               /\ snapshot.status = "finished"
               /\ a3.state.lastStatus # "finished"
              THEN triggerEndFeedback(a3)
              ELSE a3
      a5 == IF a4.threw THEN a4
            ELSE IF snapshot.status = "running"
                   THEN ensureWakeLock(a4)
                   ELSE releaseWakeLock(a4)
  IN  IF a5.threw THEN a5
      ELSE [a5 EXCEPT !.state.lastPhase = snapshot.phase,
                      !.state.lastStatus = snapshot.status]

\* updateView and updateStartButtonAvailability write to the document only.
handleTick(a, snapshot) == handlePhaseSideEffects(a, snapshot)

\* The listener main.ts gives to createTimer.
listener(a, snapshot) ==
  handleTick([a EXCEPT !.currentSnapshot = <<snapshot>>], snapshot)

\* ---------------------------------------------------------------- the engine

emit(s) ==
  LET snapshot == TimerSnapshot(s)
      s1 == [s EXCEPT !.emitted = Append(@, snapshot)]
  IN  IF s.app.host.wired
        THEN [s1 EXCEPT !.app = listener(s.app, snapshot)]
        ELSE s1

stopInterval(s) ==
  IF s.timerId # NULL
    THEN [s EXCEPT !.intervals = @ \ {s.timerId}, !.timerId = NULL]
    ELSE s

\* setInterval returns a handle that is not in use.
setInterval(live) ==
  CHOOSE i \in 1..(Cardinality(live) + 1) :
    i \notin live /\ \A j \in 1..(i - 1) : j \in live

scheduleTick(s) ==
  LET s1 == stopInterval(s)
      id == setInterval(s1.intervals)
  IN  [s1 EXCEPT !.timerId = id, !.intervals = @ \cup {id}]

\* startPhase() that takes the lateness of the previous phase's end off the
\* new phase.
startPhase_DeductLateness(s, nextPhase, nextDurationMs, t) ==
  emit([s EXCEPT !.phase = nextPhase,
                 !.durationMs = nextDurationMs,
                 !.remainingMs = Max(0, s.targetTimestamp + nextDurationMs - t),
                 !.targetTimestamp = s.targetTimestamp + nextDurationMs])

startPhase(s, nextPhase, nextDurationMs, t) ==
  emit([s EXCEPT !.phase = nextPhase,
                 !.durationMs = nextDurationMs,
                 !.remainingMs = nextDurationMs,
                 !.targetTimestamp = t + nextDurationMs])

\* finish() that leaves the interval scheduled.
finish_KeepInterval(s) ==
  emit([s EXCEPT !.status = "finished", !.phase = "finished",
                 !.remainingMs = 0, !.durationMs = 0])

finish(s) ==
  LET s1 == stopInterval(s)
  IN  emit([s1 EXCEPT !.status = "finished", !.phase = "finished",
                      !.remainingMs = 0, !.durationMs = 0])

\* getState() returns a fresh snapshot; engine is the closure after the call.
getState_Emits(s) == [engine |-> emit(s), result |-> TimerSnapshot(s)]

getState(s) == [engine |-> s, result |-> TimerSnapshot(s)]

\* advancePhase() that enters rest whatever its length.
advancePhase_NoSkip(s, t) ==
  IF s.phase = "work"
    THEN IF s.currentRound >= s.settings.rounds
           THEN finish(s)
           ELSE startPhase(s, "rest", s.settings.restSeconds * 1000, t)
    ELSE IF s.phase = "rest"
           THEN startPhase([s EXCEPT !.currentRound = @ + 1],
                           "work", s.settings.workSeconds * 1000, t)
           ELSE s

\* advancePhase() whose finish test is off by one (> instead of >=).
advancePhase_OffByOne(s, t) ==
  IF s.phase = "work"
    THEN IF s.currentRound > s.settings.rounds
           THEN finish(s)
           ELSE LET nextDuration == s.settings.restSeconds * 1000
                IN  IF nextDuration = 0
                      THEN startPhase([s EXCEPT !.currentRound = @ + 1],
                                      "work", s.settings.workSeconds * 1000, t)
                      ELSE startPhase(s, "rest", nextDuration, t)
    ELSE IF s.phase = "rest"
           THEN startPhase([s EXCEPT !.currentRound = @ + 1],
                           "work", s.settings.workSeconds * 1000, t)
           ELSE s

\* advancePhase() that leaves currentRound alone at the end of a rest.
advancePhase_RestKeepsRound(s, t) ==
  IF s.phase = "work"
    THEN IF s.currentRound >= s.settings.rounds
           THEN finish(s)
           ELSE LET nextDuration == s.settings.restSeconds * 1000
                IN  IF nextDuration = 0
                      THEN startPhase([s EXCEPT !.currentRound = @ + 1],
                                      "work", s.settings.workSeconds * 1000, t)
                      ELSE startPhase(s, "rest", nextDuration, t)
    ELSE IF s.phase = "rest"
           THEN startPhase(s, "work", s.settings.workSeconds * 1000, t)
           ELSE s

\* advancePhase() that gives every work phase a rest, the last one included,
\* and finishes from that rest.
advancePhase_RestAfterLast(s, t) ==
  IF s.phase = "work"
    THEN LET nextDuration == s.settings.restSeconds * 1000
         IN  IF nextDuration = 0
               THEN IF s.currentRound >= s.settings.rounds
                      THEN finish(s)
                      ELSE startPhase([s EXCEPT !.currentRound = @ + 1],
                                      "work", s.settings.workSeconds * 1000, t)
               ELSE startPhase(s, "rest", nextDuration, t)
    ELSE IF s.phase = "rest"
           THEN IF s.currentRound >= s.settings.rounds
                  THEN finish(s)
                  ELSE startPhase([s EXCEPT !.currentRound = @ + 1],
                                  "work", s.settings.workSeconds * 1000, t)
           ELSE s

advancePhase(s, t) ==
  IF s.phase = "work"
    THEN IF s.currentRound >= s.settings.rounds
           THEN finish(s)
           ELSE LET nextDuration == s.settings.restSeconds * 1000
                IN  IF nextDuration = 0
                      THEN startPhase([s EXCEPT !.currentRound = @ + 1],
                                      "work", s.settings.workSeconds * 1000, t)
                      ELSE startPhase(s, "rest", nextDuration, t)
    ELSE IF s.phase = "rest"
           THEN startPhase([s EXCEPT !.currentRound = @ + 1],
                           "work", s.settings.workSeconds * 1000, t)
           ELSE s

\* tick() that emits the recomputed time before advancing the phase.
tick_EmitThenAdvance(s, t) ==
  IF s.status # "running"
    THEN s
    ELSE LET s1 == [s EXCEPT !.remainingMs = Max(0, s.targetTimestamp - t)]
         IN  IF s1.remainingMs <= 0 THEN advancePhase(emit(s1), t) ELSE emit(s1)

\* tick() that counts the interval down instead of reading the clock.
tick_Decrement(s, t) ==
  IF s.status # "running"
    THEN s
    ELSE LET s1 == [s EXCEPT !.remainingMs = Max(0, s.remainingMs - TICK_INTERVAL_MS)]
         IN  IF s1.remainingMs <= 0 THEN advancePhase(s1, t) ELSE emit(s1)

\* tick() that catches up: it advances a second time when the clock is already
\* past the end of the phase it has just entered.
tick_CatchUp(s, t) ==
  IF s.status # "running"
    THEN s
    ELSE LET s1 == [s EXCEPT !.remainingMs = Max(0, s.targetTimestamp - t)]
             s2 == advancePhase(s1, t)
         IN  IF s1.remainingMs <= 0
               THEN IF s2.status = "running" /\ t - s.targetTimestamp >= s2.durationMs
                      THEN advancePhase(s2, t)
                      ELSE s2
               ELSE emit(s1)

\* tick() whose test for the end of the phase is < 0 instead of <= 0.
tick_StrictZero(s, t) ==
  IF s.status # "running"
    THEN s
    ELSE LET s1 == [s EXCEPT !.remainingMs = Max(0, s.targetTimestamp - t)]
         IN  IF s1.remainingMs < 0 THEN advancePhase(s1, t) ELSE emit(s1)

\* tick() without its status guard.
tick_NoGuard(s, t) ==
  LET s1 == [s EXCEPT !.remainingMs = Max(0, s.targetTimestamp - t)]
  IN  IF s1.remainingMs <= 0 THEN advancePhase(s1, t) ELSE emit(s1)

tick(s, t) ==
  IF s.status # "running"
    THEN s
    ELSE LET s1 == [s EXCEPT !.remainingMs = Max(0, s.targetTimestamp - t)]
         IN  IF s1.remainingMs <= 0 THEN advancePhase(s1, t) ELSE emit(s1)

\* pause() without its status guard.
pause_NoGuard(s, t) ==
  LET s1 == [s EXCEPT !.remainingMs = Max(0, s.targetTimestamp - t)]
      s2 == stopInterval(s1)
  IN  emit([s2 EXCEPT !.status = "paused"])

\* pause() without the clamp at 0.
pause_NoClamp(s, t) ==
  IF s.status # "running"
    THEN s
    ELSE LET s1 == [s EXCEPT !.remainingMs = s.targetTimestamp - t]
             s2 == stopInterval(s1)
         IN  emit([s2 EXCEPT !.status = "paused"])

\* pause() that notifies the listener before it changes the status.
pause_EmitFirst(s, t) ==
  IF s.status # "running"
    THEN s
    ELSE LET s1 == [s EXCEPT !.remainingMs = Max(0, s.targetTimestamp - t)]
             s2 == emit(stopInterval(s1))
         IN  [s2 EXCEPT !.status = "paused"]

pause(s, t) ==
  IF s.status # "running"
    THEN s
    ELSE LET s1 == [s EXCEPT !.remainingMs = Max(0, s.targetTimestamp - t)]
             s2 == stopInterval(s1)
         IN  emit([s2 EXCEPT !.status = "paused"])

\* resume() without its status guard.
resume_NoGuard(s, t) ==
  LET s1 == [s EXCEPT !.status = "running",
                      !.targetTimestamp = t + s.remainingMs]
  IN  emit(scheduleTick(s1))

\* resume() that keeps the target computed before the pause.
resume_KeepTarget(s, t) ==
  IF s.status # "paused"
    THEN s
    ELSE emit(scheduleTick([s EXCEPT !.status = "running"]))

\* resume() that does not schedule the tick.
resume_NoSchedule(s, t) ==
  IF s.status # "paused"
    THEN s
    ELSE emit([s EXCEPT !.status = "running",
                        !.targetTimestamp = t + s.remainingMs])

resume(s, t) ==
  IF s.status # "paused"
    THEN s
    ELSE LET s1 == [s EXCEPT !.status = "running",
                             !.targetTimestamp = t + s.remainingMs]
         IN  emit(scheduleTick(s1))

\* start() without the early return for running.
start_NoRunningGuard(s, t) ==
  IF s.status = "paused"
    THEN resume(s, t)
    ELSE LET s1 == [s EXCEPT !.status = "running", !.currentRound = 1]
             s2 == startPhase(s1, "work", s1.settings.workSeconds * 1000, t)
             s3 == [s2 EXCEPT !.targetTimestamp = t + s2.remainingMs]
         IN  scheduleTick(s3)

\* start() without the delegation to resume(): a paused run is restarted.
start_RestartFromPaused(s, t) ==
  IF s.status = "running"
    THEN s
    ELSE LET s1 == [s EXCEPT !.status = "running", !.currentRound = 1]
             s2 == startPhase(s1, "work", s1.settings.workSeconds * 1000, t)
             s3 == [s2 EXCEPT !.targetTimestamp = t + s2.remainingMs]
         IN  scheduleTick(s3)

\* start() that forgets to set currentRound.
start_NoRound(s, t) ==
  IF s.status = "running"
    THEN s
    ELSE IF s.status = "paused"
           THEN resume(s, t)
           ELSE LET s1 == [s EXCEPT !.status = "running"]
                    s2 == startPhase(s1, "work", s1.settings.workSeconds * 1000, t)
                    s3 == [s2 EXCEPT !.targetTimestamp = t + s2.remainingMs]
                IN  scheduleTick(s3)

\* An exception out of the listener leaves start() at its call of startPhase.
start(s, t) ==
  IF s.status = "running"
    THEN s
    ELSE IF s.status = "paused"
           THEN resume(s, t)
           ELSE LET s1 == [s EXCEPT !.status = "running", !.currentRound = 1]
                    s2 == startPhase(s1, "work", s1.settings.workSeconds * 1000, t)
                    s3 == [s2 EXCEPT !.targetTimestamp = t + s2.remainingMs]
                IN  IF s2.app.threw THEN s2 ELSE scheduleTick(s3)

\* reset() that leaves the interval scheduled.
reset_KeepInterval(s) ==
  LET s2 == [s EXCEPT !.status = "idle", !.phase = "idle", !.currentRound = 0,
                      !.durationMs = s.settings.workSeconds * 1000]
  IN  emit([s2 EXCEPT !.remainingMs = s2.durationMs])

\* reset() that restores the duration but leaves the remaining time as it was.
reset_KeepRemaining(s) ==
  LET s1 == stopInterval(s)
  IN  emit([s1 EXCEPT !.status = "idle", !.phase = "idle", !.currentRound = 0,
                      !.durationMs = s1.settings.workSeconds * 1000])

reset(s) ==
  LET s1 == stopInterval(s)
      s2 == [s1 EXCEPT !.status = "idle", !.phase = "idle", !.currentRound = 0,
                       !.durationMs = s1.settings.workSeconds * 1000]
  IN  emit([s2 EXCEPT !.remainingMs = s2.durationMs])

\* updateSettings() that refreshes the preview in idle only.
updateSettings_IdleOnly(s, next) ==
  LET s1 == [s EXCEPT !.settings = next]
  IN  IF s1.status = "idle"
        THEN LET s2 == [s1 EXCEPT !.durationMs = s1.settings.workSeconds * 1000]
             IN  emit([s2 EXCEPT !.remainingMs = s2.durationMs,
                                 !.currentRound = 0,
                                 !.phase = "idle"])
        ELSE emit(s1)

\* updateSettings() that applies the new work length to the phase in progress.
updateSettings_Truncate(s, next) ==
  LET s1 == [s EXCEPT !.settings = next]
      s2 == [s1 EXCEPT !.durationMs = s1.settings.workSeconds * 1000]
  IN  IF s1.status = "idle" \/ s1.status = "finished"
        THEN emit([s2 EXCEPT !.remainingMs = s2.durationMs,
                             !.currentRound = 0,
                             !.phase = "idle"])
        ELSE emit([s2 EXCEPT !.remainingMs = s2.durationMs])

\* updateSettings() that holds new settings back while a run is in progress.
updateSettings_DeferMidRun(s, next) ==
  IF s.status = "idle" \/ s.status = "finished"
    THEN LET s1 == [s EXCEPT !.settings = next]
             s2 == [s1 EXCEPT !.durationMs = s1.settings.workSeconds * 1000]
         IN  emit([s2 EXCEPT !.remainingMs = s2.durationMs,
                             !.currentRound = 0,
                             !.phase = "idle"])
    ELSE emit(s)

\* updateSettings() that restores the idle preview in every status.
updateSettings_PreviewAlways(s, next) ==
  LET s1 == [s EXCEPT !.settings = next]
      s2 == [s1 EXCEPT !.durationMs = s1.settings.workSeconds * 1000]
  IN  emit([s2 EXCEPT !.remainingMs = s2.durationMs,
                      !.currentRound = 0,
                      !.phase = "idle"])

\* updateSettings() that pulls the round in progress down to the new total.
updateSettings_ClampRound(s, next) ==
  LET s1 == [s EXCEPT !.settings = next]
  IN  IF s1.status = "idle" \/ s1.status = "finished"
        THEN LET s2 == [s1 EXCEPT !.durationMs = s1.settings.workSeconds * 1000]
             IN  emit([s2 EXCEPT !.remainingMs = s2.durationMs,
                                 !.currentRound = 0,
                                 !.phase = "idle"])
        ELSE emit([s1 EXCEPT !.currentRound =
                     IF @ > next.rounds THEN next.rounds ELSE @])

updateSettings(s, next) ==
  LET s1 == [s EXCEPT !.settings = next]
  IN  IF s1.status = "idle" \/ s1.status = "finished"
        THEN LET s2 == [s1 EXCEPT !.durationMs = s1.settings.workSeconds * 1000]
             IN  emit([s2 EXCEPT !.remainingMs = s2.durationMs,
                                 !.currentRound = 0,
                                 !.phase = "idle"])
        ELSE emit(s1)

\* ----------------------------------------------------------------- storage
\* src/src/storage.ts.  A stored item is what localStorage.getItem gives:
\* kind says how far getItem and JSON.parse get, obj gives the properties of
\* the parsed value when it is an object.  A property is a value with its
\* typeof; numbers are kept in tenths so that Math.round has work to do.

DEFAULT_SETTINGS ==
  [workSeconds |-> 20, restSeconds |-> 10, rounds |-> 8, muted |-> FALSE,
   settingsPanelOpen |-> FALSE]

FieldNames ==
  {"workSeconds", "restSeconds", "rounds", "muted", "settingsPanelOpen"}

Undefined == [type |-> "undefined", num |-> 0, bool |-> FALSE]
JsonString == [type |-> "string", num |-> 0, bool |-> FALSE]
JsonNumber(tenths) == [type |-> "number", num |-> tenths, bool |-> FALSE]
JsonBoolean(b) == [type |-> "boolean", num |-> 0, bool |-> b]

\* Numbers in tenths: below, inside and above the limits, and on both sides
\* of a rounding boundary (4.4, 4.5, 600.4, 600.5; -1, 20.4, 20.5; 0.4, 0.5,
\* 50.4, 50.5).
WorkSamples == {44, 45, 6004, 6005}
RestSamples == {-10, 204, 205}
RoundsSamples == {4, 5, 504, 505}

WrongType == {Undefined, JsonString}
NumberOrWrong(samples) == {JsonNumber(n) : n \in samples} \cup WrongType
BooleanOrWrong == {JsonBoolean(b) : b \in BOOLEAN} \cup WrongType

NoProperties == [f \in FieldNames |-> Undefined]

\* getItem throws; returns null; returns ""; returns text that JSON.parse
\* rejects; returns the JSON text of null, of a number, of a string.
BrokenItems ==
  {[kind |-> k, obj |-> NoProperties] :
     k \in {"throws", "missing", "empty", "unparsable", "null", "number", "string"}}

ObjectItems ==
  {[kind |-> "object", obj |-> o] :
     o \in [workSeconds : NumberOrWrong(WorkSamples),
            restSeconds : NumberOrWrong(RestSamples),
            rounds : NumberOrWrong(RoundsSamples),
            muted : BooleanOrWrong,
            settingsPanelOpen : {JsonBoolean(TRUE), Undefined}]}

StoredItems == BrokenItems \cup ObjectItems

Min(a, b) == IF a <= b THEN a ELSE b

\* Math.round of a number given in tenths: floor(x + 0.5).
MathRound(tenths) == (tenths + 5) \div 10

\* clamp() without the upper limit.
clamp_NoUpper(value, min, max) == Max(min, value)

clamp(value, min, max) == Min(max, Max(min, value))

loadSettings(item) ==
  IF item.kind = "throws" THEN DEFAULT_SETTINGS
  ELSE IF item.kind \in {"missing", "empty"} THEN DEFAULT_SETTINGS
  ELSE IF item.kind = "unparsable" THEN DEFAULT_SETTINGS
  ELSE IF item.kind # "object" THEN DEFAULT_SETTINGS
  ELSE LET candidate == item.obj
       IN  IF \/ candidate.workSeconds.type # "number"
              \/ candidate.restSeconds.type # "number"
              \/ candidate.rounds.type # "number"
              \/ candidate.muted.type # "boolean"
             THEN DEFAULT_SETTINGS
             ELSE [workSeconds |-> clamp(MathRound(candidate.workSeconds.num), 5, 600),
                   restSeconds |-> clamp(MathRound(candidate.restSeconds.num), 5, 600),
                   rounds |-> clamp(MathRound(candidate.rounds.num), 1, 50),
                   muted |-> candidate.muted.bool,
                   settingsPanelOpen |->
                     IF candidate.settingsPanelOpen.type = "boolean"
                       THEN candidate.settingsPanelOpen.bool
                       ELSE DEFAULT_SETTINGS.settingsPanelOpen]

\* JSON.stringify of a StoredSettings value, as localStorage then holds it.
Stringify(x) ==
  [kind |-> "object",
   obj |-> [f \in FieldNames |->
              IF f \in {"muted", "settingsPanelOpen"}
                THEN JsonBoolean(x[f])
                ELSE JsonNumber(10 * x[f])]]

\* The item after saveSettings(x): setItem inside try/catch.
saveSettings(item, x, ok) == IF ok THEN Stringify(x) ELSE item

toTimerSettings(x) ==
  [workSeconds |-> x.workSeconds, restSeconds |-> x.restSeconds,
   rounds |-> x.rounds]

\* Settings the application writes back: values its input fields accept.
SavedSettings ==
  [workSeconds : {5, 600}, restSeconds : {5, 600}, rounds : {1, 50},
   muted : BOOLEAN, settingsPanelOpen : BOOLEAN]

\* ----------------------------------------------------------------- actions

\* How far the clock is past the end of the phase in progress: -1 while the
\* phase has time left or the engine is not running.
Lateness ==
  IF status = "running" /\ now >= targetTimestamp
    THEN now - targetTimestamp
    ELSE -1

\* How many times the calls cs ask for the sound type.
Played(cs, type) == Cardinality({i \in DOMAIN cs : cs[i].type = type})

\* The engine after an operation op that returned the record s.
Commit(s, op) ==
  /\ settings' = s.settings
  /\ phase' = s.phase
  /\ status' = s.status
  /\ currentRound' = s.currentRound
  /\ durationMs' = s.durationMs
  /\ remainingMs' = s.remainingMs
  /\ targetTimestamp' = s.targetTimestamp
  /\ timerId' = s.timerId
  /\ intervals' = s.intervals
  /\ emitted' = s.emitted
  /\ lastOp' = [op |-> op, from |-> status, fromPhase |-> phase,
                 fromRound |-> currentRound, repeat |-> (lastOp.op = op),
                 late |-> Lateness]
  /\ anchor' = IF s.status # "running"
                 THEN NoAnchor
                 ELSE IF \/ status # "running"
                         \/ s.phase # phase
                         \/ s.currentRound # currentRound
                        THEN [at |-> now, remainingMs |-> s.remainingMs]
                        ELSE anchor
  /\ entered' = IF s.status = "idle" \/ s.phase = "idle"
                  THEN <<>>
                  ELSE IF status \in {"idle", "finished"} /\ s.status = "running"
                         THEN <<<<s.phase, s.currentRound>>>>
                         ELSE IF entered = SettingsChanged \/ s.settings # settings
                                THEN SettingsChanged
                                ELSE IF <<s.phase, s.currentRound>>
                                          # <<phase, currentRound>>
                                       THEN Append(entered,
                                                   <<s.phase, s.currentRound>>)
                                       ELSE entered
  /\ counted' = IF s.status \notin {"running", "paused"}
                  THEN {}
                  ELSE (IF \/ status \in {"idle", "finished"}
                           \/ s.phase # phase
                           \/ s.currentRound # currentRound
                          THEN {}
                          ELSE counted)
                       \cup (IF Played(s.app.cues, "countdown") > 0
                               THEN {CeilSeconds(s.remainingMs)}
                               ELSE {})
  /\ now' = now
  /\ state' = s.app.state
  /\ currentSnapshot' = s.app.currentSnapshot
  /\ wakeLock' = s.app.wakeLock
  /\ host' = s.app.host
  /\ threw' = s.app.threw
  /\ warned' = s.app.warned
  /\ cues' = s.app.cues
  /\ fields' = s.app.fields

\* The closure of createTimer(initialSettings, listener) after its initial emit().
createTimer(initialSettings, app) ==
  emit([settings |-> initialSettings, phase |-> "idle", status |-> "idle",
        currentRound |-> 0, durationMs |-> initialSettings.workSeconds * 1000,
        remainingMs |-> initialSettings.workSeconds * 1000,
        targetTimestamp |-> 0, timerId |-> NULL, intervals |-> {},
        emitted |-> <<>>, app |-> app])


\* main.ts state before any snapshot; muted is state.settings.muted.
InitialState(muted) ==
  [countdownTriggered |-> {}, lastPhase |-> "idle", lastStatus |-> "idle",
   wakeLockActive |-> FALSE, muted |-> muted]

\* WakeLockManager with no sentinel, no lock held, no call in flight.
InitialWakeLock == [sentinel |-> NULL, locks |-> {}, requests |-> 0, releases |-> 0]

\* The engine is given a listener that only records the snapshots.
PlainListener ==
  /\ state = InitialState(FALSE)
  /\ currentSnapshot = <<>>
  /\ wakeLock = InitialWakeLock
  /\ host = [wired |-> FALSE, failing |-> {}]
  /\ threw = FALSE
  /\ warned = {}
  /\ cues = <<>>
  /\ fields = <<>>

\* createTimer(initialSettings, listener): the closure's initial values and
\* the initial emit().
Init ==
  /\ settings \in TimerSettings
  /\ phase = "idle"
  /\ status = "idle"
  /\ currentRound = 0
  /\ durationMs = settings.workSeconds * 1000
  /\ remainingMs = durationMs
  /\ targetTimestamp = 0
  /\ timerId = NULL
  /\ intervals = {}
  /\ now = 0
  /\ emitted = <<[status |-> "idle", phase |-> "idle", currentRound |-> 0,
                  totalRounds |-> settings.rounds, durationMs |-> durationMs,
                  remainingMs |-> remainingMs]>>
  /\ lastOp = [op |-> "createTimer", from |-> "idle", fromPhase |-> "idle",
                fromRound |-> 0, repeat |-> FALSE, late |-> -1]
  /\ frozen = NoFreeze
  /\ returned = <<>>
  /\ stored = [kind |-> "missing", obj |-> NoProperties]
  /\ loaded = <<>>
  /\ PlainListener
  /\ anchor = NoAnchor
  /\ entered = <<>>
  /\ counted = {}
  /\ requested = settings

Start ==
  /\ Commit(start(Cur, now), "start")
  /\ frozen' = IF status = "paused" THEN frozen ELSE NoFreeze
  /\ returned' = <<>>
  /\ UNCHANGED <<stored, loaded, requested>>

Pause ==
  /\ Commit(pause(Cur, now), "pause")
  /\ frozen' = IF status = "running"
                 THEN [at |-> now, remainingMs |-> Max(0, targetTimestamp - now)]
                 ELSE frozen
  /\ returned' = <<>>
  /\ UNCHANGED <<stored, loaded, requested>>

Resume ==
  /\ Commit(resume(Cur, now), "resume")
  /\ frozen' = frozen
  /\ returned' = <<>>
  /\ UNCHANGED <<stored, loaded, requested>>

Reset ==
  /\ Commit(reset(Cur), "reset")
  /\ frozen' = NoFreeze
  /\ returned' = <<>>
  /\ UNCHANGED <<stored, loaded, requested>>

UpdateSettings ==
  \E next \in TimerSettings :
    /\ Commit(updateSettings(Cur, next), "updateSettings")
    /\ requested' = next
    /\ frozen' = frozen
    /\ returned' = <<>>
    /\ UNCHANGED <<stored, loaded>>

GetState ==
  /\ Commit(getState(Cur).engine, "getState")
  /\ frozen' = frozen
  /\ returned' = <<getState(Cur).result>>
  /\ UNCHANGED <<stored, loaded, requested>>

\* The interval callback fires: some handle is live in the host.
Tick ==
  /\ intervals # {}
  /\ Commit(tick(Cur, now), "tick")
  /\ frozen' = NoFreeze
  /\ returned' = <<>>
  /\ UNCHANGED <<stored, loaded, requested>>

\* tick() is entered although no interval is live.  The host never does this
\* after clearInterval; the step exercises the guard at the head of tick().
LateTick ==
  /\ intervals = {}
  /\ Commit(tick(Cur, now), "tick")
  /\ frozen' = frozen
  /\ returned' = <<>>
  /\ UNCHANGED <<stored, loaded, requested>>

\* Wall-clock time passes.
Advance ==
  \E d \in Delays :
    /\ now + d <= MaxNow
    /\ now' = now + d
    /\ UNCHANGED <<settings, phase, status, currentRound, durationMs,
                   remainingMs, targetTimestamp, timerId, intervals,
                   emitted, lastOp, frozen, returned, stored, loaded,
                   anchor, requested, entered, counted>>
    /\ UNCHANGED appVars

Next ==
  \/ Start
  \/ Pause
  \/ Resume
  \/ Reset
  \/ UpdateSettings
  \/ GetState
  \/ Tick
  \/ LateTick
  \/ Advance

Spec == Init /\ [][Next]_vars

\* ------------------------------------------------- loading the settings
\* The page loads: main.ts sets state.settings = loadSettings() and constructs
\* the engine from it.

InitLoad ==
  /\ stored \in StoredItems
  /\ PlainListener
  /\ loaded = <<[item |-> stored, settings |-> loadSettings(stored)]>>
  /\ settings = toTimerSettings(loadSettings(stored))
  /\ phase = "idle"
  /\ status = "idle"
  /\ currentRound = 0
  /\ durationMs = settings.workSeconds * 1000
  /\ remainingMs = durationMs
  /\ targetTimestamp = 0
  /\ timerId = NULL
  /\ intervals = {}
  /\ now = 0
  /\ emitted = createTimer(settings, Cur.app).emitted
  /\ lastOp = [op |-> "createTimer", from |-> "idle", fromPhase |-> "idle",
                fromRound |-> 0, repeat |-> FALSE, late |-> -1]
  /\ frozen = NoFreeze
  /\ returned = <<>>
  /\ anchor = NoAnchor
  /\ entered = <<>>
  /\ counted = {}
  /\ requested = settings

\* The page is loaded again.
Reload ==
  /\ loaded' = <<[item |-> stored, settings |-> loadSettings(stored)]>>
  /\ stored' = stored
  /\ requested' = toTimerSettings(loadSettings(stored))
  /\ Commit(createTimer(toTimerSettings(loadSettings(stored)), Cur.app),
            "createTimer")
  /\ frozen' = NoFreeze
  /\ returned' = <<>>

\* saveSettings(settings): setItem may throw, which is caught.
SaveSettings ==
  \E x \in SavedSettings, ok \in BOOLEAN :
    /\ stored' = saveSettings(stored, x, ok)
    /\ UNCHANGED <<settings, phase, status, currentRound, durationMs,
                   remainingMs, targetTimestamp, timerId, intervals, now,
                   emitted, lastOp, frozen, returned, loaded, anchor,
                   requested, entered, counted>>
    /\ UNCHANGED appVars

\* clearStoredSettings()
ClearStoredSettings ==
  /\ stored' = [kind |-> "missing", obj |-> NoProperties]
  /\ UNCHANGED <<settings, phase, status, currentRound, durationMs,
                 remainingMs, targetTimestamp, timerId, intervals, now,
                 emitted, lastOp, frozen, returned, loaded, anchor,
                 requested, entered, counted>>
  /\ UNCHANGED appVars

NextLoad ==
  \/ Reload
  \/ SaveSettings
  \/ ClearStoredSettings

SpecLoad == InitLoad /\ [][NextLoad]_vars

TypeOK ==
  /\ settings \in TimerSettings
  /\ phase \in Phase
  /\ status \in TimerStatus
  /\ currentRound \in 0..(MaxRounds + 1)
  /\ durationMs \in Nat
  /\ remainingMs \in Int
  /\ targetTimestamp \in Nat
  /\ timerId \in Nat
  /\ intervals \subseteq Nat
  /\ now \in 0..MaxNow
  /\ Len(emitted) <= 2


\* ------------------------------------------------------- the application
\* main.ts around the engine: the page has loaded, the listener is main.ts's,
\* the user clicks, the interval fires, the clock moves and the wake-lock
\* promises settle.

\* Items a previous session of the application left in localStorage.
AppItems ==
  {[kind |-> "missing", obj |-> NoProperties]} \cup
  {Stringify(x) : x \in [workSeconds : {2}, restSeconds : {1}, rounds : {2},
                         muted : {FALSE}, settingsPanelOpen : {FALSE}]}

\* Values the input fields give to handleInputChange.
AppSettings == [workSeconds : {2}, restSeconds : {1}, rounds : {1, 2}]

\* Which platform APIs fail in this session: none, or all of them.
Failures == {{}, APIs}

AppDelaySteps == {10, 20}
AppDelays == {k * TICK_INTERVAL_MS : k \in AppDelaySteps}

\* state.settings as the application saves it.
CurrentStored(timerSettings, muted) ==
  [workSeconds |-> timerSettings.workSeconds,
   restSeconds |-> timerSettings.restSeconds,
   rounds |-> timerSettings.rounds,
   muted |-> muted, settingsPanelOpen |-> FALSE]

\* The variables hold the engine record s.
Holds(s) ==
  /\ settings = s.settings
  /\ phase = s.phase
  /\ status = s.status
  /\ currentRound = s.currentRound
  /\ durationMs = s.durationMs
  /\ remainingMs = s.remainingMs
  /\ targetTimestamp = s.targetTimestamp
  /\ timerId = s.timerId
  /\ intervals = s.intervals
  /\ emitted = s.emitted
  /\ state = s.app.state
  /\ currentSnapshot = s.app.currentSnapshot
  /\ wakeLock = s.app.wakeLock
  /\ host = s.app.host
  /\ threw = s.app.threw
  /\ warned = s.app.warned
  /\ cues = s.app.cues
  /\ fields = s.app.fields

InitApp ==
  \E item \in AppItems, failing \in Failures :
    LET x == loadSettings(item)
        app == [state |-> InitialState(x.muted), currentSnapshot |-> <<>>,
                wakeLock |-> InitialWakeLock,
                host |-> [wired |-> TRUE, failing |-> failing],
                threw |-> FALSE, warned |-> {}, cues |-> <<>>,
                fields |-> <<>>]
    IN  /\ stored = item
        /\ loaded = <<[item |-> item, settings |-> x]>>
        /\ Holds(createTimer(toTimerSettings(x), app))
        /\ now = 0
        /\ lastOp = [op |-> "createTimer", from |-> "idle", fromPhase |-> "idle",
                      fromRound |-> 0, repeat |-> FALSE, late |-> -1]
        /\ frozen = NoFreeze
        /\ returned = <<>>
        /\ anchor = NoAnchor
        /\ entered = <<>>
        /\ counted = {}
        /\ requested = toTimerSettings(x)

\* No more calls in flight than the model keeps.
Bounded ==
  /\ wakeLock'.requests <= MaxPending
  /\ wakeLock'.releases <= MaxPending

\* handleStartToggle, with every field valid.
HandleStartToggle ==
  /\ currentSnapshot # <<>>
  /\ IF currentSnapshot[1].status = "running" THEN Pause ELSE Start
  /\ Bounded

\* handleReset: in idle the settings go back to the defaults first; the
\* button does nothing while running.
HandleReset ==
  /\ currentSnapshot # <<>>
  /\ currentSnapshot[1].status # "running"
  /\ IF currentSnapshot[1].status = "idle"
        THEN LET next == toTimerSettings(DEFAULT_SETTINGS)
                 s1 == updateSettings(Cur, next)
                 s2 == IF s1.app.threw THEN s1 ELSE reset(s1)
             IN  /\ Commit(s2, "resetToDefaultSettings")
                 /\ stored' = saveSettings(stored, CurrentStored(next, state.muted),
                                           "storage" \notin host.failing)
                 /\ requested' = next
                 /\ frozen' = NoFreeze
                 /\ returned' = <<>>
                 /\ loaded' = loaded
        ELSE Reset
  /\ Bounded

\* handleInputChange with every field valid; updateView disables the inputs
\* while status is running or paused.
HandleInputChange ==
  \E next \in AppSettings :
    /\ currentSnapshot # <<>>
    /\ currentSnapshot[1].status \in {"idle", "finished"}
    /\ Commit(updateSettings(Cur, next), "updateSettings")
    /\ stored' = saveSettings(stored, CurrentStored(next, state.muted),
                              "storage" \notin host.failing)
    /\ requested' = next
    /\ frozen' = frozen
    /\ returned' = <<>>
    /\ loaded' = loaded
    /\ Bounded

\* handleMuteToggle
HandleMuteToggle ==
  /\ state' = [state EXCEPT !.muted = ~@]
  /\ stored' = saveSettings(stored, CurrentStored(settings, ~state.muted),
                            "storage" \notin host.failing)
  /\ lastOp' = [op |-> "handleMuteToggle", from |-> status, fromPhase |-> phase,
                 fromRound |-> currentRound, repeat |-> FALSE,
                 late |-> -1]
  /\ emitted' = <<>>
  /\ cues' = <<>>
  /\ threw' = FALSE
  /\ warned' = IF "storage" \in host.failing THEN {"storage"} ELSE {}
  /\ UNCHANGED <<engine, now, frozen, returned, loaded, currentSnapshot,
                 wakeLock, host, fields, anchor, requested, entered, counted>>

TickApp ==
  /\ Tick
  /\ Bounded

AdvanceApp ==
  \E d \in AppDelays :
    /\ now + d <= MaxAppNow
    /\ now' = now + d
    /\ UNCHANGED <<engine, emitted, lastOp, frozen, returned, stored, loaded,
                   anchor, requested, entered, counted>>
    /\ UNCHANGED appVars

\* A sentinel the platform has not handed out.
NewSentinel(used) ==
  CHOOSE i \in 1..(Cardinality(used) + 1) : i \notin used

\* navigator.wakeLock.request settles: the rest of WakeLockManager.request and
\* of ensureWakeLock run.
RequestSettles ==
  /\ wakeLock.requests > 0
  /\ IF "wakeLock" \in host.failing
        THEN /\ wakeLock' = [wakeLock EXCEPT !.requests = @ - 1, !.sentinel = NULL]
             /\ state' = [state EXCEPT !.wakeLockActive = FALSE]
             /\ warned' = {"wakeLock"}
        ELSE /\ Cardinality(wakeLock.locks) < MaxLocks
             /\ LET id == NewSentinel(wakeLock.locks \cup {wakeLock.sentinel})
                 IN  wakeLock' = [wakeLock EXCEPT !.requests = @ - 1,
                                                  !.sentinel = id,
                                                  !.locks = @ \cup {id}]
             /\ state' = [state EXCEPT !.wakeLockActive = TRUE]
             /\ warned' = {}
  /\ lastOp' = [op |-> "requestSettles", from |-> status, fromPhase |-> phase,
                 fromRound |-> currentRound, repeat |-> FALSE,
                 late |-> -1]
  /\ emitted' = <<>>
  /\ cues' = <<>>
  /\ threw' = FALSE
  /\ UNCHANGED <<engine, now, frozen, returned, stored, loaded,
                 currentSnapshot, host, fields, anchor, requested, entered,
                 counted>>

\* sentinel.release() settles: the rest of WakeLockManager.release and of
\* releaseWakeLock run.
ReleaseSettles ==
  /\ wakeLock.releases > 0
  /\ wakeLock' = [wakeLock EXCEPT !.releases = @ - 1, !.sentinel = NULL]
  /\ state' = [state EXCEPT !.wakeLockActive = FALSE]
  /\ warned' = IF "wakeLock" \in host.failing THEN {"wakeLock"} ELSE {}
  /\ lastOp' = [op |-> "releaseSettles", from |-> status, fromPhase |-> phase,
                 fromRound |-> currentRound, repeat |-> FALSE,
                 late |-> -1]
  /\ emitted' = <<>>
  /\ cues' = <<>>
  /\ threw' = FALSE
  /\ UNCHANGED <<engine, now, frozen, returned, stored, loaded,
                 currentSnapshot, host, fields, anchor, requested, entered,
                 counted>>

NextApp ==
  \/ HandleStartToggle
  \/ HandleReset
  \/ HandleInputChange
  \/ HandleMuteToggle
  \/ TickApp
  \/ AdvanceApp
  \/ RequestSettles
  \/ ReleaseSettles

SpecApp == InitApp /\ [][NextApp]_vars

\* ------------------------------------------- the listener without a rest
\* main.ts's listener on an engine whose settings may elide the rest phase
\* (restSeconds 0, timer.ts advancePhase), so that a work phase follows a work
\* phase.  The page's own inputs and loadSettings keep restSeconds at 5 or
\* more; the engine takes 0 from whoever constructs it.

CueSettings == [workSeconds : {2}, restSeconds : {0, 1}, rounds : {2, 3}]

InitCues ==
  \E initialSettings \in CueSettings :
    LET app == [state |-> InitialState(FALSE), currentSnapshot |-> <<>>,
                wakeLock |-> InitialWakeLock,
                host |-> [wired |-> TRUE, failing |-> {}],
                threw |-> FALSE, warned |-> {}, cues |-> <<>>,
                fields |-> <<>>]
    IN  /\ stored = [kind |-> "missing", obj |-> NoProperties]
        /\ loaded = <<>>
        /\ Holds(createTimer(initialSettings, app))
        /\ now = 0
        /\ lastOp = [op |-> "createTimer", from |-> "idle", fromPhase |-> "idle",
                      fromRound |-> 0, repeat |-> FALSE, late |-> -1]
        /\ frozen = NoFreeze
        /\ returned = <<>>
        /\ anchor = NoAnchor
        /\ entered = <<>>
        /\ counted = {}
        /\ requested = initialSettings

NextCues ==
  \/ HandleStartToggle
  \/ TickApp
  \/ AdvanceApp
  \/ RequestSettles
  \/ ReleaseSettles

SpecCues == InitCues /\ [][NextCues]_vars

\* ------------------------------------------------------- the settings form
\* main.ts's three number inputs, their validation and the settings they
\* give to the engine.  The engine stays idle: updateView disables the inputs
\* and the adjust buttons while it runs or is paused.  What an input holds is
\* either nothing (the value '' a number input has for text that is no
\* number) or a number, kept in tenths.

\* How far from a limit the adjust buttons are followed.
MaxAdjust == 1

FieldKeys == {"workSeconds", "restSeconds", "rounds"}

FIELD_CONFIG ==
  [workSeconds |-> [min |-> 5, max |-> 600],
   restSeconds |-> [min |-> 5, max |-> 600],
   rounds |-> [min |-> 1, max |-> 50]]

Blank == [isNumber |-> FALSE, tenths |-> 0]
Digits(tenths) == [isNumber |-> TRUE, tenths |-> tenths]

\* What the user leaves in an input: nothing, or a number below, at and
\* above the limits, whole or not (4, 5.5, 600; 5, 601; 0, 1.5, 51).
Typed ==
  [workSeconds |-> {Blank} \cup {Digits(n) : n \in {40, 55, 6000}},
   restSeconds |-> {Digits(n) : n \in {50, 6010}},
   rounds |-> {Blank} \cup {Digits(n) : n \in {0, 15, 510}}]

\* data-delta of the two adjust buttons of a field
Deltas == {1, -1}

\* Number(value), in tenths; Number('') is 0.
Number(value) == value.tenths

\* value.toString() of a whole number
toString(n) == Digits(10 * n)

validateField(a, field) ==
  LET config == FIELD_CONFIG[field]
      raw == a.fields[field].value
      numericValue == Number(raw)
      valid == /\ raw # Blank
               /\ numericValue % 10 = 0
               /\ numericValue >= 10 * config.min
               /\ numericValue <= 10 * config.max
  IN  [a EXCEPT !.fields[field].valid = valid]

allFieldsValid(a) == \A key \in FieldKeys : a.fields[key].valid

\* Number(ui.inputs[field].value) for the three fields; the engine counts in
\* whole seconds and rounds.
readTimerSettingsFromInputs(a) ==
  [workSeconds |-> Number(a.fields.workSeconds.value) \div 10,
   restSeconds |-> Number(a.fields.restSeconds.value) \div 10,
   rounds |-> Number(a.fields.rounds.value) \div 10]

\* handleInputChange that asks only whether the field just changed is valid.
handleInputChange_OneField(s, field) ==
  LET a1 == validateField(s.app, field)
      s1 == [s EXCEPT !.app = a1]
  IN  IF a1.fields[field].valid
        THEN updateSettings(s1, readTimerSettingsFromInputs(a1))
        ELSE s1

\* handleInputChange up to timer.updateSettings; saveSettings is in the
\* actions, which hold the stored item.
handleInputChange(s, field) ==
  LET a1 == validateField(s.app, field)
      s1 == [s EXCEPT !.app = a1]
  IN  IF allFieldsValid(a1)
        THEN updateSettings(s1, readTimerSettingsFromInputs(a1))
        ELSE s1

adjustField(s, field, delta) ==
  LET config == FIELD_CONFIG[field]
      current == Number(s.app.fields[field].value)
      next == clamp(MathRound(current + 10 * delta), config.min, config.max)
  IN  handleInputChange([s EXCEPT !.app.fields[field].value = toString(next)],
                        field)

\* The loop over Object.keys(FIELD_CONFIG), after each input has its value.
validateFields(a) ==
  validateField(validateField(validateField(a, "workSeconds"), "restSeconds"),
                "rounds")

\* initialize(): the inputs take state.settings, fieldState starts all valid.
initialize(a, x) ==
  validateFields([a EXCEPT !.fields =
                    [f \in FieldKeys |-> [value |-> toString(x[f]),
                                          valid |-> TRUE]]])

\* resetToDefaultSettings up to timer.updateSettings.
resetToDefaultSettings(s) ==
  LET a1 == [s.app EXCEPT !.fields =
               [f \in FieldKeys |->
                  [@[f] EXCEPT !.value = toString(DEFAULT_SETTINGS[f])]]]
  IN  updateSettings([s EXCEPT !.app = validateFields(a1)],
                     toTimerSettings(DEFAULT_SETTINGS))

\* Items a previous session may have left: none, or one outside the limits
\* on every field (4.4, 700.5, 50.5).
FormItems ==
  {[kind |-> "missing", obj |-> NoProperties],
   [kind |-> "object",
    obj |-> [workSeconds |-> JsonNumber(44), restSeconds |-> JsonNumber(7005),
             rounds |-> JsonNumber(505), muted |-> JsonBoolean(TRUE),
             settingsPanelOpen |-> Undefined]]}

InitFields ==
  \E item \in FormItems :
    LET x == loadSettings(item)
        app == [state |-> InitialState(x.muted), currentSnapshot |-> <<>>,
                wakeLock |-> InitialWakeLock,
                host |-> [wired |-> TRUE, failing |-> {}],
                threw |-> FALSE, warned |-> {}, cues |-> <<>>,
                fields |-> <<>>]
        s == createTimer(toTimerSettings(x), app)
    IN  /\ stored = item
        /\ loaded = <<[item |-> item, settings |-> x]>>
        /\ Holds([s EXCEPT !.app = initialize(s.app, x)])
        /\ now = 0
        /\ lastOp = [op |-> "createTimer", from |-> "idle", fromPhase |-> "idle",
                      fromRound |-> 0, repeat |-> FALSE, late |-> -1]
        /\ frozen = NoFreeze
        /\ returned = <<>>
        /\ anchor = NoAnchor
        /\ entered = <<>>
        /\ counted = {}
        /\ requested = toTimerSettings(x)

\* What an operation of the form leaves in storage and on record as given to
\* the engine: updateSettings() was called iff the operation emitted.
Saved(s) ==
  /\ stored' = IF s.emitted = <<>>
                 THEN stored
                 ELSE saveSettings(stored, CurrentStored(s.settings, state.muted),
                                   "storage" \notin host.failing)
  /\ requested' = IF s.emitted = <<>> THEN requested ELSE s.settings
  /\ frozen' = frozen
  /\ returned' = <<>>
  /\ loaded' = loaded

\* The user edits an input: its input event calls handleInputChange.
InputEvent ==
  \E field \in FieldKeys :
    \E value \in Typed[field] :
      LET s == handleInputChange([Cur EXCEPT !.app.fields[field].value = value],
                                 field)
      IN  /\ Commit(s, "handleInputChange")
          /\ Saved(s)

\* An adjust button is pressed.
AdjustButton ==
  \E field \in FieldKeys, delta \in Deltas :
    LET s == adjustField(Cur, field, delta)
        next == Number(s.app.fields[field].value) \div 10
    IN  /\ \/ next - FIELD_CONFIG[field].min <= MaxAdjust
           \/ FIELD_CONFIG[field].max - next <= MaxAdjust
        /\ Commit(s, "adjustField")
        /\ Saved(s)

\* handleReset with the engine idle: the defaults, then timer.reset().
ResetButton ==
  LET s == reset(resetToDefaultSettings(Cur))
  IN  /\ Commit(s, "resetToDefaultSettings")
      /\ Saved(s)

NextFields ==
  \/ InputEvent
  \/ AdjustButton
  \/ ResetButton

SpecFields == InitFields /\ [][NextFields]_vars

\* ------------------------------------------------------------ one whole run
\* One run from idle to finished: start(), then only ticks, the clock, pauses
\* and resumes.  The clock moves while the engine runs and the phase has time
\* left, so a tick is never later than one clock step and the clock stops with
\* the run; a pause needs the clock to have moved since the phase was entered
\* or resumed.

\* Runs of one and of two rounds.
LiveSettings == [workSeconds : 1..MaxWork, restSeconds : 0..MaxRest, rounds : 1..2]

LiveDelaySteps == {5, 10}
LiveDelays == {k * TICK_INTERVAL_MS : k \in LiveDelaySteps}

InitLive ==
  /\ Init
  /\ settings \in LiveSettings

StartLive ==
  /\ status = "idle"
  /\ Start

\* The interval callback fires; the latest pause stays on record.
TickLive ==
  /\ intervals # {}
  /\ Commit(tick(Cur, now), "tick")
  /\ frozen' = frozen
  /\ returned' = <<>>
  /\ UNCHANGED <<stored, loaded, requested>>

AdvanceLive ==
  \E d \in LiveDelays :
    /\ status = "running"
    /\ now < targetTimestamp
    /\ now' = now + d
    /\ UNCHANGED <<engine, emitted, lastOp, frozen, returned, stored, loaded,
                   anchor, requested, entered, counted>>
    /\ UNCHANGED appVars

PauseLive ==
  /\ status = "running"
  /\ now > anchor.at
  /\ Pause

ResumeLive ==
  /\ status = "paused"
  /\ Resume

NextLive ==
  \/ StartLive
  \/ TickLive
  \/ AdvanceLive
  \/ PauseLive
  \/ ResumeLive

\* The interval keeps firing, the clock keeps moving and a paused run is
\* resumed.
SpecLive ==
  /\ InitLive
  /\ [][NextLive]_vars
  /\ WF_vars(TickLive)
  /\ WF_vars(AdvanceLive)
  /\ WF_vars(ResumeLive)

\* ------------------------------------------------------------------ claims

\* The step is a call of op (the clock does not move during a call).
IsCall(op) == lastOp'.op = op /\ now' = now

\* The snapshot of the engine's current variables.
CurSnapshot == TimerSnapshot(Cur)

\* C1: start() called in idle calls the listener exactly once, with a snapshot
\* of status running, phase work, currentRound 1 and remainingMs = durationMs
\* = workSeconds*1000, and leaves the tick interval scheduled.
C1_StartFromIdle ==
  (lastOp.op = "start" /\ lastOp.from = "idle") =>
    /\ emitted = <<[status |-> "running", phase |-> "work", currentRound |-> 1,
                    totalRounds |-> settings.rounds,
                    durationMs |-> settings.workSeconds * 1000,
                    remainingMs |-> settings.workSeconds * 1000]>>
    /\ status = "running"
    /\ timerId # NULL
    /\ timerId \in intervals

C1_Witness ==
  /\ lastOp.op = "start"
  /\ lastOp.from = "idle"
  /\ status = "running"
  /\ Len(emitted) = 1

\* C2: every snapshot given to the listener has 0 <= remainingMs <= durationMs.
C2_RemainingWithinDuration ==
  \A i \in DOMAIN emitted :
    /\ 0 <= emitted[i].remainingMs
    /\ emitted[i].remainingMs <= emitted[i].durationMs

\* pause() called after the target has passed: the clamp decides the snapshot.
C2_Witness ==
  /\ lastOp.op = "pause"
  /\ lastOp.from = "running"
  /\ Len(emitted) = 1
  /\ emitted[1].remainingMs = 0
  /\ emitted[1].durationMs > 0
  /\ frozen.at > targetTimestamp

\* C3: phase is finished if and only if status is finished.
C3_PhaseFinishedIffStatusFinished ==
  (phase = "finished") <=> (status = "finished")

\* C4: every snapshot given to the listener has currentRound <= totalRounds.
C4_RoundWithinTotal ==
  \A i \in DOMAIN emitted : emitted[i].currentRound <= emitted[i].totalRounds

\* C5: currentRound is 0 only when status is idle.
C5_RoundZeroOnlyIdle ==
  currentRound = 0 => status = "idle"

\* C6 (as stated): once status is finished, only reset() changes it.
C6_OnlyResetLeavesFinished ==
  [][(status = "finished" /\ status' # "finished") => IsCall("reset")]_vars

\* C6 (amended): once status is finished, only reset() and start() change it:
\* reset() to idle, start() to a new run (running, work, round 1); pause(),
\* resume(), updateSettings() and ticks leave status finished.
C6_OnlyResetOrStartLeavesFinished ==
  [][(status = "finished" /\ status' # "finished") =>
       \/ IsCall("reset") /\ status' = "idle"
       \/ /\ IsCall("start")
          /\ status' = "running"
          /\ phase' = "work"
          /\ currentRound' = 1]_vars

C6_Witness ==
  /\ lastOp.op = "resume"
  /\ lastOp.from = "finished"
  /\ status = "finished"

\* C7: a tick that ends a work phase with currentRound < rounds and
\* restSeconds = 0 enters work with currentRound + 1, and no snapshot with
\* phase rest and durationMs 0 is given to the listener.
C7_ZeroRestElided ==
  /\ [][( /\ IsCall("tick")
          /\ status = "running"
          /\ phase = "work"
          /\ targetTimestamp <= now
          /\ currentRound < settings.rounds
          /\ settings.restSeconds = 0 ) =>
         ( /\ status' = "running"
           /\ phase' = "work"
           /\ currentRound' = currentRound + 1
           /\ Len(emitted') = 1
           /\ emitted'[1].phase = "work" )]_vars
  /\ [](\A i \in DOMAIN emitted :
          ~(emitted[i].phase = "rest" /\ emitted[i].durationMs = 0))

C7_Witness ==
  /\ lastOp.op = "tick"
  /\ lastOp.from = "running"
  /\ lastOp.fromPhase = "work"
  /\ lastOp.fromRound = 1
  /\ settings.restSeconds = 0
  /\ phase = "work"
  /\ currentRound = 2

\* C8: a tick that ends a work phase with currentRound >= rounds enters
\* status finished, phase finished with remainingMs 0, and status becomes
\* finished by no other step.
C8_FinishOnlyFromLastWork ==
  /\ [][( /\ IsCall("tick")
          /\ status = "running"
          /\ phase = "work"
          /\ targetTimestamp <= now
          /\ currentRound >= settings.rounds ) =>
         ( /\ status' = "finished"
           /\ phase' = "finished"
           /\ remainingMs' = 0
           /\ Len(emitted') = 1
           /\ emitted'[1].phase = "finished" )]_vars
  /\ [][(status # "finished" /\ status' = "finished") =>
         ( /\ IsCall("tick")
           /\ status = "running"
           /\ phase = "work"
           /\ currentRound >= settings.rounds
           /\ targetTimestamp <= now )]_vars

\* Finished straight from work although a rest length is configured.
C8_Witness ==
  /\ lastOp.op = "tick"
  /\ lastOp.from = "running"
  /\ lastOp.fromPhase = "work"
  /\ settings.restSeconds > 0
  /\ status = "finished"
  /\ phase = "finished"
  /\ remainingMs = 0

\* C9: while paused remainingMs stays at the value frozen by pause(), and
\* resume() keeps it, keeps phase and currentRound, and sets the target to
\* the time of the resume plus the frozen value.
C9_PauseResumeRoundTrip ==
  /\ [](status = "paused" => remainingMs = frozen.remainingMs)
  /\ [][(IsCall("resume") /\ status = "paused") =>
         ( /\ status' = "running"
           /\ remainingMs' = frozen.remainingMs
           /\ phase' = phase
           /\ currentRound' = currentRound
           /\ targetTimestamp' = now + frozen.remainingMs )]_vars

\* Resumed later than paused, with time left.
C9_Witness ==
  /\ lastOp.op = "resume"
  /\ lastOp.from = "paused"
  /\ status = "running"
  /\ frozen.remainingMs > 0
  /\ remainingMs = frozen.remainingMs
  /\ targetTimestamp - frozen.remainingMs > frozen.at

\* C10: after reset(), whatever the state it was called in, no interval is
\* scheduled and the single snapshot emitted is idle, idle, round 0 with
\* remainingMs = durationMs = workSeconds*1000 of the current settings.
C10_Reset ==
  lastOp.op = "reset" =>
    /\ status = "idle"
    /\ phase = "idle"
    /\ currentRound = 0
    /\ durationMs = settings.workSeconds * 1000
    /\ remainingMs = durationMs
    /\ timerId = NULL
    /\ intervals = {}
    /\ emitted = <<CurSnapshot>>

C10_Witness ==
  /\ lastOp.op = "reset"
  /\ lastOp.from = "running"
  /\ lastOp.fromPhase = "rest"
  /\ status = "idle"
  /\ timerId = NULL

\* C11: updateSettings(next) called in idle or finished sets durationMs =
\* remainingMs = next.workSeconds*1000, currentRound = 0 and phase = idle, and
\* emits once the resulting snapshot, whose totalRounds is next.rounds.
C11_UpdateSettingsIdleOrFinished ==
  (lastOp.op = "updateSettings" /\ lastOp.from \in {"idle", "finished"}) =>
    /\ durationMs = settings.workSeconds * 1000
    /\ remainingMs = settings.workSeconds * 1000
    /\ currentRound = 0
    /\ phase = "idle"
    /\ emitted = <<[status |-> lastOp.from, phase |-> "idle",
                    currentRound |-> 0, totalRounds |-> settings.rounds,
                    durationMs |-> settings.workSeconds * 1000,
                    remainingMs |-> settings.workSeconds * 1000]>>

\* Called in finished, where durationMs was 0 and phase finished.
C11_Witness ==
  /\ lastOp.op = "updateSettings"
  /\ lastOp.from = "finished"
  /\ lastOp.fromPhase = "finished"
  /\ phase = "idle"
  /\ durationMs = MaxWork * 1000

\* C12: updateSettings(next) called in running or paused leaves status, phase,
\* currentRound, durationMs, remainingMs and the target unchanged and emits
\* once the unchanged snapshot with totalRounds = next.rounds.
C12_UpdateSettingsMidRun ==
  [][(IsCall("updateSettings") /\ status \in {"running", "paused"}) =>
       /\ UNCHANGED <<status, phase, currentRound, durationMs, remainingMs,
                      targetTimestamp, timerId, intervals>>
       /\ emitted' = <<[CurSnapshot EXCEPT !.totalRounds = settings'.rounds]>>]_vars

\* Mid-phase, with a work length configured that differs from the phase's.
C12_Witness ==
  /\ lastOp.op = "updateSettings"
  /\ lastOp.from = "running"
  /\ status = "running"
  /\ phase = "work"
  /\ settings.workSeconds * 1000 # durationMs
  /\ 0 < remainingMs
  /\ remainingMs < durationMs

\* C13: a pause() that directly follows a pause(), and a start() that directly
\* follows a start(), change nothing in the engine and emit nothing.
C13_PauseStartIdempotent ==
  [][( \/ IsCall("pause") /\ lastOp.op = "pause"
       \/ IsCall("start") /\ lastOp.op = "start" ) =>
       (UNCHANGED engine /\ emitted' = <<>>)]_vars

C13_Witness ==
  /\ lastOp.op = "start"
  /\ lastOp.repeat
  /\ lastOp.from = "running"
  /\ status = "running"
  /\ emitted = <<>>

\* C14: pause() called when status is not running and resume() called when
\* status is not paused change nothing in the engine and emit nothing.
C14_InvalidCallsAreNoOps ==
  [][( \/ IsCall("pause") /\ status # "running"
       \/ IsCall("resume") /\ status # "paused" ) =>
       (UNCHANGED engine /\ emitted' = <<>>)]_vars

C14_Witness ==
  /\ lastOp.op = "pause"
  /\ lastOp.from = "idle"
  /\ status = "idle"
  /\ emitted = <<>>

\* C15: in every paused state start() and resume() give the same engine and
\* the same emission, and start() keeps currentRound, phase and remainingMs.
C15_StartFromPausedIsResume ==
  /\ [](status = "paused" => start(Cur, now) = resume(Cur, now))
  /\ [][(IsCall("start") /\ status = "paused") =>
         ( /\ status' = "running"
           /\ currentRound' = currentRound
           /\ phase' = phase
           /\ remainingMs' = remainingMs
           /\ emitted' = <<[CurSnapshot EXCEPT !.status = "running"]>> )]_vars

\* start() called on a run paused in its second round or later.
C15_Witness ==
  /\ lastOp.op = "start"
  /\ lastOp.from = "paused"
  /\ lastOp.fromRound >= 2
  /\ status = "running"
  /\ currentRound = lastOp.fromRound
  /\ Len(emitted) = 1

\* C16: no operation calls the listener more than once, and a tick that fires
\* while status is running calls it exactly once.
C16_AtMostOneEmission ==
  /\ Len(emitted) <= 1
  /\ (lastOp.op = "tick" /\ lastOp.from = "running") => Len(emitted) = 1

\* A tick that advanced the phase.
C16_Witness ==
  /\ lastOp.op = "tick"
  /\ lastOp.from = "running"
  /\ lastOp.fromPhase = "work"
  /\ phase = "rest"
  /\ Len(emitted) = 1

\* C17: getState() changes no engine variable, emits nothing and returns the
\* snapshot of the current variables.
C17_GetStateIsPure ==
  [][IsCall("getState") =>
       ( /\ UNCHANGED engine
         /\ emitted' = <<>>
         /\ returned' = <<CurSnapshot>> )]_vars

C17_Witness ==
  /\ lastOp.op = "getState"
  /\ lastOp.from = "running"
  /\ returned = <<CurSnapshot>>
  /\ emitted = <<>>
  /\ remainingMs < durationMs

\* The nearest integer of a number given in tenths, halves going up.
Nearest(tenths) ==
  CHOOSE n \in -2..700 : 10 * n - 5 <= tenths /\ tenths < 10 * n + 5

\* v is x brought into lo..hi.
Into(v, x, lo, hi) ==
  /\ v \in lo..hi
  /\ x \in lo..hi => v = x
  /\ x < lo => v = lo
  /\ x > hi => v = hi

\* The stored item is an object whose four fields have the expected types.
WellFormed(item) ==
  /\ item.kind = "object"
  /\ \A f \in {"workSeconds", "restSeconds", "rounds"} : item.obj[f].type = "number"
  /\ item.obj.muted.type = "boolean"

\* C19: loadSettings() returns the defaults (20, 10, 8, not muted) for a
\* stored item that is missing, unparsable, not an object or has a wrongly
\* typed field, and otherwise the stored values with workSeconds and
\* restSeconds rounded and brought into 5..600, rounds rounded and brought
\* into 1..50 and muted as stored.
C19_LoadSettings ==
  loaded # <<>> =>
      LET item == loaded[1].item
          r == loaded[1].settings
      IN  IF WellFormed(item)
            THEN /\ Into(r.workSeconds, Nearest(item.obj.workSeconds.num), 5, 600)
                 /\ Into(r.restSeconds, Nearest(item.obj.restSeconds.num), 5, 600)
                 /\ Into(r.rounds, Nearest(item.obj.rounds.num), 1, 50)
                 /\ r.muted = item.obj.muted.bool
            ELSE /\ r.workSeconds = 20
                 /\ r.restSeconds = 10
                 /\ r.rounds = 8
                 /\ r.muted = FALSE

\* A well-formed item with 600.5 seconds of work and 0.4 rounds, loaded by a
\* reload of the page.
C19_Witness ==
  /\ lastOp.op = "createTimer"
  /\ lastOp.repeat
  /\ loaded # <<>>
  /\ WellFormed(loaded[1].item)
  /\ loaded[1].item.obj.workSeconds.num = 6005
  /\ loaded[1].item.obj.rounds.num = 4
  /\ loaded[1].settings.workSeconds = 600
  /\ loaded[1].settings.rounds = 1
  /\ settings.workSeconds = 600

\* C18: once every pending wake-lock call has settled, the screen lock is held
\* if and only if the latest snapshot the application saw has status running
\* (with the Wake Lock API present and not failing).
C18_LockHeldIffRunning ==
  (/\ host.wired
   /\ "wakeLock" \notin host.failing
   /\ wakeLock.requests = 0
   /\ wakeLock.releases = 0)
  => ((wakeLock.locks # {}) <=> (currentSnapshot[1].status = "running"))

\* The engine record s with a listener that does nothing but record.
Plain(s) == [s EXCEPT !.app.host.wired = FALSE]

\* The engine's variables in the record s, in the order of engine.
EngineOf(s) ==
  <<s.settings, s.phase, s.status, s.currentRound, s.durationMs,
    s.remainingMs, s.targetTimestamp, s.timerId, s.intervals>>

\* C20: whichever of the audio, vibration, wake-lock and storage APIs fail, no
\* exception reaches the engine from the listener; every engine call leaves the
\* engine exactly as it would with a listener that does nothing, and a running
\* engine always has its interval live, so the ticks go on to finished.
C20_FailuresStayOutOfTheEngine ==
  /\ [](host.wired => ~threw)
  /\ [](host.wired /\ status = "running"
          => timerId # NULL /\ timerId \in intervals)
  /\ [][(host.wired /\ IsCall("tick"))
          => engine' = EngineOf(tick(Plain(Cur), now))]_vars
  /\ [][(host.wired /\ IsCall("start"))
          => engine' = EngineOf(start(Plain(Cur), now))]_vars
  /\ [][(host.wired /\ IsCall("pause"))
          => engine' = EngineOf(pause(Plain(Cur), now))]_vars
  /\ [][(host.wired /\ IsCall("reset"))
          => engine' = EngineOf(reset(Plain(Cur)))]_vars

\* With every API failing and sound on, a tick has taken the engine to finished:
\* the end cue's vibration failed, was caught and logged, and nothing was thrown.
C20_Witness ==
  /\ host.wired
  /\ host.failing = APIs
  /\ ~state.muted
  /\ lastOp.op = "tick"
  /\ lastOp.from = "running"
  /\ status = "finished"
  /\ timerId = NULL
  /\ "vibrate" \in warned
  /\ ~threw

\* C21: a tick in status running sets remainingMs to max(0, R0 - (now - t0)),
\* t0 the clock at the latest phase entry or resume and R0 the remaining time
\* then; when that is 0 the tick advances the phase instead.  The value does
\* not depend on the ticks that came before.
C21_DriftFree ==
  [][(IsCall("tick") /\ status = "running") =>
       LET r == Max(0, anchor.remainingMs - (now - anchor.at))
       IN  IF r > 0
             THEN /\ remainingMs' = r
                  /\ emitted' = <<[CurSnapshot EXCEPT !.remainingMs = r]>>
                  /\ phase' = phase
                  /\ currentRound' = currentRound
             ELSE phase' # phase \/ currentRound' # currentRound]_vars

\* A second tick in a row after a resume: the remaining time is the resumed
\* remaining time less the clock time since the resume.
C21_Witness ==
  /\ lastOp.op = "tick"
  /\ lastOp.from = "running"
  /\ lastOp.repeat
  /\ status = "running"
  /\ anchor.at > 0
  /\ anchor.remainingMs < durationMs
  /\ remainingMs > 0
  /\ remainingMs < anchor.remainingMs
  /\ remainingMs = anchor.remainingMs - (now - anchor.at)

\* C22: one tick crosses at most one phase boundary, however late it is: it
\* leaves phase and round alone, or moves to the phase that directly follows
\* (work to rest in the same round, work to the next round's work when the
\* rest is 0 long, work to finished, rest to the next round's work), and it
\* raises currentRound by at most 1.
C22_OnePhasePerTick ==
  [][IsCall("tick") =>
       /\ currentRound' \in {currentRound, currentRound + 1}
       /\ \/ phase' = phase /\ currentRound' = currentRound
          \/ /\ phase = "work"
             /\ phase' = "rest"
             /\ currentRound' = currentRound
          \/ /\ phase = "work"
             /\ settings.restSeconds = 0
             /\ phase' = "work"
             /\ currentRound' = currentRound + 1
          \/ /\ phase = "work"
             /\ phase' = "finished"
             /\ currentRound' = currentRound
          \/ /\ phase = "rest"
             /\ phase' = "work"
             /\ currentRound' = currentRound + 1]_vars

\* A tick that came later than the whole length of the rest that follows has
\* entered that rest, in the same round, and no more.
C22_Witness ==
  /\ lastOp.op = "tick"
  /\ lastOp.fromPhase = "work"
  /\ lastOp.late >= settings.restSeconds * 1000
  /\ settings.restSeconds > 0
  /\ currentRound < settings.rounds
  /\ status = "running"
  /\ phase = "rest"
  /\ currentRound = lastOp.fromRound
  /\ Len(emitted) = 1

\* C23: when start() (from idle or finished) or a tick enters a work or rest
\* phase, durationMs is the configured length of that phase, remainingMs equals
\* it, the target is the clock at entry plus that length, and the snapshot
\* emitted shows the full length: the lateness of the tick is not deducted.
C23_PhaseEntryIsFull ==
  [][(\/ IsCall("start") /\ status \in {"idle", "finished"}
      \/ /\ IsCall("tick")
         /\ status' = "running"
         /\ (phase' # phase \/ currentRound' # currentRound))
     => /\ phase' \in {"work", "rest"}
        /\ durationMs' = 1000 * (IF phase' = "work" THEN settings'.workSeconds
                                                    ELSE settings'.restSeconds)
        /\ remainingMs' = durationMs'
        /\ targetTimestamp' = now + durationMs'
        /\ Len(emitted') = 1
        /\ emitted'[1].phase = phase'
        /\ emitted'[1].remainingMs = durationMs'
        /\ emitted'[1].durationMs = durationMs']_vars

\* A late tick has entered the next phase with its full length ahead.
C23_Witness ==
  /\ lastOp.op = "tick"
  /\ lastOp.late > 0
  /\ status = "running"
  /\ phase \in {"work", "rest"}
  /\ phase # lastOp.fromPhase
  /\ durationMs > 0
  /\ remainingMs = durationMs
  /\ targetTimestamp = now + durationMs

\* C24: a tick never shows the listener remainingMs = 0 in phase work or rest.
\* When the clock has reached the target the tick advances the phase, and its
\* one snapshot carries the phase entered (with its full length) or finished,
\* never the phase that has just expired.
C24_NoZeroInWorkOrRest ==
  [][(IsCall("tick") /\ status = "running") =>
       /\ \A i \in 1..Len(emitted') :
            emitted'[i].remainingMs = 0 => emitted'[i].phase = "finished"
       /\ now >= targetTimestamp =>
            /\ Len(emitted') = 1
            /\ <<emitted'[1].phase, emitted'[1].currentRound>>
                 # <<phase, currentRound>>]_vars

\* A tick found exactly 0 ms left in a work phase and emitted the rest phase.
C24_Witness ==
  /\ lastOp.op = "tick"
  /\ lastOp.from = "running"
  /\ lastOp.late = 0
  /\ lastOp.fromPhase = "work"
  /\ status = "running"
  /\ emitted = <<CurSnapshot>>
  /\ phase = "rest"
  /\ remainingMs = settings.restSeconds * 1000

\* C25: the engine holds a tick handle if and only if status is running, and
\* the host has no live interval but that one: exactly one while running, none
\* in idle, paused and finished.
C25_OneHandleIffRunning ==
  /\ (timerId # NULL) <=> (status = "running")
  /\ intervals = (IF status = "running" THEN {timerId} ELSE {})
  /\ Cardinality(intervals) <= 1

\* A tick has finished a run: the engine's handle is cleared and the host has
\* no live interval.
C25_Witness ==
  /\ lastOp.op = "tick"
  /\ lastOp.from = "running"
  /\ status = "finished"
  /\ timerId = NULL
  /\ intervals = {}

\* C26: while status is idle, paused or finished, neither the clock moving nor
\* tick() being entered changes any variable of the engine, and neither calls
\* the listener.
C26_StoppedEngineIsStill ==
  [][(status \in {"idle", "paused", "finished"}
      /\ (now' # now \/ IsCall("tick")))
     => /\ UNCHANGED engine
        /\ now' # now => UNCHANGED <<emitted, lastOp>>
        /\ IsCall("tick") => emitted' = <<>>]_vars

\* tick() was entered in status paused after the clock had passed the target
\* of the paused phase: the frozen remaining time is still there, nothing was
\* emitted.
C26_Witness ==
  /\ lastOp.op = "tick"
  /\ lastOp.from = "paused"
  /\ status = "paused"
  /\ frozen.at >= 0
  /\ now > frozen.at
  /\ now > targetTimestamp
  /\ remainingMs = frozen.remainingMs
  /\ remainingMs > 0
  /\ emitted = <<>>

\* C27: when a tick ends a phase, the finish test and the length of the phase
\* entered use the settings most recently given to the engine (by createTimer
\* or updateSettings, also in the middle of the run), not those the run
\* started with.
C27_LatestSettingsAtPhaseEnd ==
  [][(IsCall("tick") /\ status = "running" /\ now >= targetTimestamp) =>
       IF phase = "work"
         THEN IF currentRound >= requested.rounds
                THEN status' = "finished" /\ phase' = "finished"
                ELSE IF requested.restSeconds = 0
                       THEN /\ phase' = "work"
                            /\ durationMs' = requested.workSeconds * 1000
                       ELSE /\ phase' = "rest"
                            /\ durationMs' = requested.restSeconds * 1000
         ELSE /\ phase = "rest"
              /\ phase' = "work"
              /\ durationMs' = requested.workSeconds * 1000]_vars

\* The run got past round 1, so it had more rounds when that round ended; the
\* rounds were then lowered below the current round, and the tick that ended
\* the work phase finished the run on the lowered value.
C27_Witness ==
  /\ lastOp.op = "tick"
  /\ lastOp.from = "running"
  /\ lastOp.fromPhase = "work"
  /\ lastOp.fromRound >= 2
  /\ lastOp.fromRound > requested.rounds
  /\ settings = requested
  /\ status = "finished"

\* C28: the tick that ends a rest phase raises currentRound by exactly 1 and
\* enters work with durationMs = workSeconds*1000, still running; and no step
\* at all takes the engine from rest into another rest or into finished.
C28_RestThenWork ==
  /\ [][(IsCall("tick") /\ status = "running" /\ phase = "rest"
         /\ now >= targetTimestamp)
        => /\ phase' = "work"
           /\ status' = "running"
           /\ currentRound' = currentRound + 1
           /\ durationMs' = settings.workSeconds * 1000]_vars
  /\ [][phase = "rest"
        => /\ phase' \in {"rest", "work", "idle"}
           /\ phase' = "rest" => /\ currentRound' = currentRound
                                 /\ durationMs' = durationMs
           /\ phase' = "work" => IsCall("tick")]_vars

\* A late tick has ended a rest: the next round's work phase is in progress.
C28_Witness ==
  /\ lastOp.op = "tick"
  /\ lastOp.fromPhase = "rest"
  /\ lastOp.late > 0
  /\ status = "running"
  /\ phase = "work"
  /\ currentRound = lastOp.fromRound + 1
  /\ durationMs = settings.workSeconds * 1000

\* The phases of a whole run with the settings st, each with its round:
\* work(1), rest, work(2), ..., work(rounds), finished, without the rests when
\* restSeconds is 0.
PhasesOfRun(st) ==
  IF st.restSeconds > 0
    THEN [i \in 1..(2 * st.rounds) |->
            IF i = 2 * st.rounds THEN <<"finished", st.rounds>>
            ELSE IF i % 2 = 1 THEN <<"work", (i + 1) \div 2>>
            ELSE <<"rest", i \div 2>>]
    ELSE [i \in 1..(st.rounds + 1) |->
            IF i = st.rounds + 1 THEN <<"finished", st.rounds>>
            ELSE <<"work", i>>]

\* C29: in a run started from idle or finished whose settings have not changed
\* (pauses and resumes allowed), the phases entered so far are the beginning of
\* work(1), rest, work(2), ..., work(rounds), finished (no rests when
\* restSeconds is 0), the engine is in the last of them, and the run is
\* finished exactly when the whole sequence has been entered: rounds work
\* phases, rounds - 1 rests or none, no rest after the last work phase.
C29_PhaseSequence ==
  (entered # <<>> /\ entered # SettingsChanged) =>
    LET whole == PhasesOfRun(settings)
        n == Len(entered)
    IN  /\ n <= Len(whole)
        /\ \A i \in 1..n : entered[i] = whole[i]
        /\ entered[n] = <<phase, currentRound>>
        /\ (status = "finished") <=> (n = Len(whole))
        /\ status \in {"running", "paused", "finished"}

\* A run of two rounds with a rest has gone through all its phases and is
\* finished.
C29_Witness ==
  /\ status = "finished"
  /\ lastOp.op = "tick"
  /\ settings.rounds >= 2
  /\ settings.restSeconds > 0
  /\ entered = PhasesOfRun(settings)
  /\ Len(entered) = 2 * settings.rounds

\* C30: a running engine whose ticks keep firing while the clock advances, and
\* which is resumed whenever it is paused, eventually reaches status finished;
\* also when a pause was taken after the remaining time had reached 0.
C30_RunningLeadsToFinished == (status = "running") ~> (status = "finished")

\* The run is finished, and its latest pause was taken when the clock had
\* already passed the end of the phase (frozen remaining time 0).
C30_Witness ==
  /\ status = "finished"
  /\ lastOp.op = "tick"
  /\ frozen.at > 0
  /\ frozen.remainingMs = 0
  /\ settings.rounds = 2
  /\ settings.restSeconds > 0

\* ---------------------------------------------------------------------
\* C31.  Whenever the status is idle the engine shows the idle preview of
\* the settings it holds: phase idle, round 0, and the remaining time and
\* the duration both equal to workSeconds * 1000.
C31_IdleIsPreview ==
  status = "idle" =>
    /\ phase = "idle"
    /\ currentRound = 0
    /\ durationMs = settings.workSeconds * 1000
    /\ remainingMs = durationMs

\* A reset out of a paused rest phase whose length differs from the work
\* length: the preview is back although the rest phase had a different
\* duration and less than that remaining.
C31_Witness ==
  /\ lastOp.op = "reset"
  /\ lastOp.from = "paused"
  /\ lastOp.fromPhase = "rest"
  /\ frozen = NoFreeze
  /\ settings.restSeconds # settings.workSeconds
  /\ status = "idle"
  /\ phase = "idle"
  /\ currentRound = 0
  /\ remainingMs = settings.workSeconds * 1000
  /\ durationMs = remainingMs

\* ---------------------------------------------------------------------
\* C32.  Whenever the status is running or paused, the phase is work or
\* rest and the round is at least 1.
C32_RunHasPhaseAndRound ==
  status \in {"running", "paused"} =>
    /\ phase \in {"work", "rest"}
    /\ currentRound >= 1

\* A paused rest phase of a later round, just after the settings were
\* changed under it.
C32_Witness ==
  /\ lastOp.op = "updateSettings"
  /\ lastOp.from = "paused"
  /\ status = "paused"
  /\ phase = "rest"
  /\ currentRound >= 2

\* ---------------------------------------------------------------------
\* C33.  The round changes in three ways only: start() from idle or
\* finished sets it to 1, a tick that enters a work phase raises it by
\* exactly 1, and reset() or updateSettings() in idle or finished sets it
\* to 0.  So pause, resume and the ticks that stay in the phase leave it
\* alone, and it never goes down while the run is running or paused
\* except by reset().
C33_RoundChanges ==
  [][currentRound' # currentRound =>
       \/ /\ IsCall("start")
          /\ status \in {"idle", "finished"}
          /\ currentRound' = 1
       \/ /\ IsCall("tick")
          /\ status = "running"
          /\ now >= targetTimestamp
          /\ phase' = "work"
          /\ currentRound' = currentRound + 1
       \/ /\ IsCall("reset")
          /\ currentRound' = 0
       \/ /\ IsCall("updateSettings")
          /\ status \in {"idle", "finished"}
          /\ currentRound' = 0]_vars

\* A run in its third round whose total was just lowered below the round
\* in progress: the round stays where it is.
C33_Witness ==
  /\ lastOp.op = "updateSettings"
  /\ lastOp.from = "running"
  /\ status = "running"
  /\ currentRound = 3
  /\ lastOp.fromRound = 3
  /\ settings.rounds < currentRound

\* ---------------------------------------------------------------------
\* C34.  What getState() returns is the snapshot most recently given to
\* the listener: an operation that emits leaves the engine equal to its
\* last emission, and a step that emits nothing changes nothing that
\* getState() shows.  (Construction is Init, whose one emission is the
\* initial snapshot.)
C34_StateIsLastEmission ==
  [][/\ emitted' # <<>> => emitted'[Len(emitted')] = CurSnapshot'
     /\ CurSnapshot' # CurSnapshot => emitted' # <<>>
     /\ returned' # <<>> => /\ returned' = <<CurSnapshot'>>
                            /\ CurSnapshot' = CurSnapshot]_vars

\* getState() on a running rest phase that a tick has just entered (the
\* tick's emission was the last one), and it returns that snapshot.
C34_Witness ==
  /\ lastOp.op = "getState"
  /\ ~lastOp.repeat
  /\ status = "running"
  /\ phase = "rest"
  /\ anchor # NoAnchor
  /\ anchor.remainingMs = remainingMs
  /\ returned = <<CurSnapshot>>
  /\ emitted = <<>>

\* ---------------------------------------------------------------------
\* C35.  The start sound is asked for exactly once by the operation that
\* takes the engine from idle or finished to running and by no other
\* (not by resume, not by a tick); the end sound exactly once by the
\* operation that takes the engine into finished and by no other, so not
\* by updateSettings() while the status stays finished.
C35_StartAndEndCues ==
  [][now' = now =>
       /\ Played(cues', "start") =
            IF status \in {"idle", "finished"} /\ status' = "running"
              THEN 1 ELSE 0
       /\ Played(cues', "end") =
            IF status # "finished" /\ status' = "finished"
              THEN 1 ELSE 0]_vars

\* A run started from finished after the settings were changed there (the
\* finished snapshot was emitted a second time): the start sound is asked
\* for once.
C35_Witness ==
  /\ host.wired
  /\ lastOp.op = "start"
  /\ lastOp.from = "finished"
  /\ lastOp.fromPhase = "idle"
  /\ status = "running"
  /\ Played(cues, "start") = 1
  /\ Played(cues, "end") = 0

\* ---------------------------------------------------------------------
\* C36.  An operation asks for the countdown sound at most once, only with
\* the engine running and 3, 2 or 1 seconds (rounded up) remaining, and
\* never for a second it was already played for since the phase in
\* progress was entered, whatever snapshots, pauses and resumes came in
\* between.
C36_CountdownOncePerSecond ==
  [][now' = now =>
       /\ Played(cues', "countdown") <= 1
       /\ Played(cues', "countdown") = 1 =>
            /\ status' = "running"
            /\ CeilSeconds(remainingMs') \in COUNTDOWN_VALUES
            /\ (/\ status \in {"running", "paused"}
                /\ phase' = phase
                /\ currentRound' = currentRound)
               => CeilSeconds(remainingMs') \notin counted]_vars

\* The start button resumes a paused run inside a second whose countdown
\* was played before the pause: the running snapshot of the resume plays
\* nothing.
C36_Witness ==
  /\ host.wired
  /\ lastOp.op = "start"
  /\ lastOp.from = "paused"
  /\ status = "running"
  /\ CeilSeconds(remainingMs) \in counted
  /\ CeilSeconds(remainingMs) \in COUNTDOWN_VALUES
  /\ cues = <<>>

C38_SettingsWithinLimits ==
  /\ settings = requested
  /\ requested.workSeconds \in 5..600
  /\ requested.restSeconds \in 5..600
  /\ requested.rounds \in 1..50
  /\ (lastOp.op # "createTimer" /\ emitted # <<>>) =>
       \A f \in FieldKeys :
         /\ fields[f].value.isNumber
         /\ fields[f].value.tenths = 10 * requested[f]

\* The work input was just given a valid new value while the rounds input
\* holds an invalid one: updateSettings was not called and the engine keeps
\* the settings it had.
C38_Witness ==
  /\ lastOp.op \in {"handleInputChange", "adjustField"}
  /\ fields.workSeconds.valid
  /\ fields.workSeconds.value.tenths # 10 * requested.workSeconds
  /\ fields.restSeconds.valid
  /\ ~fields.rounds.valid
  /\ emitted = <<>>
  /\ settings = requested

\* ---------------------------------------------------------------------
\* C39.  At most one wake-lock request is in flight at any time, and every
\* lock the platform holds for the page is the one WakeLockManager keeps
\* in its sentinel (none was overwritten and left unreleased).
C39_OneRequestAtATime ==
  /\ wakeLock.requests <= 1
  /\ wakeLock.locks \subseteq {wakeLock.sentinel}

====
